---- MODULE Spec2Model ----
(***************************************************************************)
(* A model of opu (src/index.js, lines 102-367): the pipeline that reads   *)
(* package.json, extracts the URLs of its known fields, reads the Git      *)
(* remote URL, infers the GitHub URLs, builds the choice list, prompts and *)
(* opens the chosen URL.                                                   *)
(*                                                                         *)
(* JavaScript strings are TLA+ strings (Len, SubSeq and \o act on them     *)
(* character by character); every other JavaScript value is a record with  *)
(* a tag t.  A regular expression is modelled by the match the backtracking*)
(* engine finds: the leftmost start, the lazy or greedy extent of each     *)
(* group.  The expressions have the u flag and neither s nor m: "." takes  *)
(* any character but a line terminator, "$" matches at the end of the      *)
(* string only.                                                            *)
(***************************************************************************)
EXTENDS Integers, Sequences, FiniteSets, TLC

VARIABLES
  pc,           \* the statement of the async function the run is at
  disk,         \* package.json as the file system holds it (the run's input)
  packageJson,  \* const packageJson (line 335)
  urls,         \* const urls (line 336), gitRemoteUrl merged in at line 340
  gitHubUrls,   \* const gitHubUrls (line 343)
  choices,      \* const choices (line 346)
  answer,       \* answer.url (line 351)
  opened,       \* the URLs open() was called with, in order
  console,      \* the messages written with console.warn / console.error
  steps,        \* the steps begun so far, in order
  outcome       \* "running", "returned" (the function ended), "caught" (line 364)

vars == <<pc, disk, packageJson, urls, gitHubUrls, choices, answer, opened,
          console, steps, outcome>>

(***************************************************************************)
(* Bounds of the model.                                                    *)
(***************************************************************************)
\* How many of the five known fields a manifest of the model holds at once.
MaxPresent == 2

(***************************************************************************)
(* JavaScript values.                                                      *)
(***************************************************************************)
Undefined == [t |-> "undefined"]
Null == [t |-> "null"]
Bool(b) == [t |-> "boolean", b |-> b]
Num(n) == [t |-> "number", n |-> n]
Str(s) == [t |-> "string", s |-> s]
Arr == [t |-> "array"]
\* An object literal of a manifest; url is Undefined when it has no url.
Obj(u) == [t |-> "object", url |-> u]
\* The TypeError a call of .replace on a non-string raises.
TypeError == [t |-> "TypeError"]

\* ToBoolean: what if(x), !x and x ? a : b read.
Truthy(v) ==
  CASE v.t = "undefined" -> FALSE
    [] v.t = "null" -> FALSE
    [] v.t = "boolean" -> v.b
    [] v.t = "number" -> v.n # 0
    [] v.t = "string" -> v.s # ""
    [] OTHER -> TRUE

(***************************************************************************)
(* Strings.                                                                *)
(***************************************************************************)
Min(S) == CHOOSE x \in S : \A y \in S : x <= y
Max(S) == CHOOSE x \in S : \A y \in S : x >= y

\* pat occurs in s at position i (1-based).
MatchesAt(s, pat, i) ==
  /\ i >= 1
  /\ i + Len(pat) - 1 <= Len(s)
  /\ SubSeq(s, i, i + Len(pat) - 1) = pat

\* The positions at or after from where pat occurs in s.
Occurrences(s, pat, from) ==
  {i \in from..(Len(s) - Len(pat) + 1) : MatchesAt(s, pat, i)}

\* String.prototype.includes
Includes(s, pat) == Occurrences(s, pat, 1) # {}

\* The first position at or after from of pat in s, 0 when there is none.
IndexOf(s, pat, from) ==
  IF Occurrences(s, pat, from) = {} THEN 0 ELSE Min(Occurrences(s, pat, from))

\* The last position at or after from of pat in s, 0 when there is none.
LastIndexOf(s, pat, from) ==
  IF Occurrences(s, pat, from) = {} THEN 0 ELSE Max(Occurrences(s, pat, from))

\* s from position i to its end.
From(s, i) == SubSeq(s, i, Len(s))

\* The class (\/|\?|#) of the inferrer's expressions.
IsDelimiter(c) == c \in {"/", "?", "#"}

\* The first position at or after from that (\/|\?|#|$) matches at: a
\* delimiter, or Len(s) + 1 for the end of the string.
DelimiterIndex(s, from) ==
  Min({i \in from..(Len(s) + 1) : i = Len(s) + 1 \/ IsDelimiter(SubSeq(s, i, i))})

\* The line terminators a string of the model can hold: line feed and
\* carriage return.  The "." of a regular expression matches neither.
LF == "\n"
CR == "\r"
IsLineTerminator(c) == c \in {LF, CR}

\* Where a ".*" that starts at from has to stop: the first line terminator
\* at or after from, or Len(s) + 1 for the end of the string.
DotEnd(s, from) ==
  Min({i \in from..(Len(s) + 1) :
         i = Len(s) + 1 \/ IsLineTerminator(SubSeq(s, i, i))})

(***************************************************************************)
(* findUrlsFromPackageJson (lines 154-183).                                *)
(***************************************************************************)
\* The five known fields, in the order of the returned object's keys, and
\* the key main adds (line 340).
PropertyNames == <<"homepage", "author", "repository", "bugs", "funding">>
UrlKeys == PropertyNames \o <<"gitRemoteUrl">>

\* url.replace((/(#.*|\.git$)/u), ''): the expression has no g flag, so only
\* its leftmost match is replaced: '#' and what follows it on its line, or
\* else a '.git' that ends the string.
ReplaceFragmentOrGit(s) ==
  LET hash == IndexOf(s, "#", 1)
      git == IF MatchesAt(s, ".git", Len(s) - 3) THEN Len(s) - 3 ELSE 0
  IN  IF hash # 0 /\ (git = 0 \/ hash < git)
      THEN SubSeq(s, 1, hash - 1) \o From(s, DotEnd(s, hash + 1))
      ELSE IF git # 0 THEN SubSeq(s, 1, git - 1)
      ELSE s

\* packageJson[propertyName]: a TypeError on null, undefined on any other
\* value that is not a mapping.
Property(pj, propertyName) ==
  IF pj.t = "null" THEN TypeError
  ELSE IF pj.t = "manifest" THEN pj[propertyName]
  ELSE Undefined

\* value?.url for a value that is not a string.
UrlOf(v) == IF v.t = "object" THEN v.url ELSE Undefined

\* getFromUrlProperty: Null, the string found, or the TypeError of calling
\* .replace on a truthy url that is no string.
getFromUrlProperty(pj, propertyName) ==
  LET v == Property(pj, propertyName)
      url == IF v.t = "string" THEN v ELSE UrlOf(v)
  IN  IF v = TypeError THEN TypeError
      ELSE IF ~Truthy(url) THEN Null
      ELSE IF url.t = "string" THEN Str(ReplaceFragmentOrGit(url.s))
      ELSE TypeError

\* The positions of pat that a ".*" starting at from can stop before.
Reachable(s, pat, from) ==
  {i \in Occurrences(s, pat, from) : i < DotEnd(s, from)}

\* url.match((/\((http.*)\)/u)): the leftmost "(http" that a ")" follows on
\* the same line, then greedily to the last ")" of that line.  [found, g1].
MatchParenthesizedHttp(s) ==
  LET opens == {o \in Occurrences(s, "(http", 1) : Reachable(s, ")", o + 5) # {}}
  IN  IF opens = {} THEN [found |-> FALSE, g1 |-> ""]
      ELSE LET open == Min(opens)
               close == Max(Reachable(s, ")", open + 5))
           IN  [found |-> TRUE, g1 |-> SubSeq(s, open + 1, close - 1)]

\* const author (lines 167-173)
AuthorUrl(pj) ==
  LET url == getFromUrlProperty(pj, "author")
      match == MatchParenthesizedHttp(url.s)
  IN  IF url = TypeError THEN TypeError
      ELSE IF ~Truthy(url) THEN Null
      ELSE IF match.found THEN Str(match.g1) ELSE url

\* url.replace((/^git\+/u), '')
ReplaceGitPlus(s) == IF MatchesAt(s, "git+", 1) THEN From(s, 5) ELSE s

\* const repository (lines 174-179)
RepositoryUrl(pj) ==
  LET url == getFromUrlProperty(pj, "repository")
  IN  IF url = TypeError THEN TypeError
      ELSE IF ~Truthy(url) THEN Null
      ELSE Str(ReplaceGitPlus(url.s))

\* The returned object, or the TypeError that leaves the function.  The key
\* gitRemoteUrl does not exist yet: Undefined.
findUrlsFromPackageJson(pj) ==
  LET homepage == getFromUrlProperty(pj, "homepage")
      author == AuthorUrl(pj)
      repository == RepositoryUrl(pj)
      bugs == getFromUrlProperty(pj, "bugs")
      funding == getFromUrlProperty(pj, "funding")
  IN  IF \E r \in {homepage, author, repository, bugs, funding} : r = TypeError
      THEN TypeError
      ELSE [t |-> "urls", homepage |-> homepage, author |-> author,
            repository |-> repository, bugs |-> bugs, funding |-> funding,
            gitRemoteUrl |-> Undefined]

(***************************************************************************)
(* findUrlFromGitConfig (lines 190-200).                                   *)
(***************************************************************************)
\* stdout.split('\n')
RECURSIVE Split(_)
Split(s) ==
  LET nl == IndexOf(s, LF, 1)
  IN  IF nl = 0 THEN <<s>>
      ELSE <<SubSeq(s, 1, nl - 1)>> \o Split(From(s, nl + 1))

\* What String.prototype.trim strips: the WhiteSpace and LineTerminator
\* characters of ECMAScript that a string of the model can hold.  (The
\* others, U+2000 to U+200A, U+2028, U+2029, U+202F, U+205F and U+3000, cannot
\* be written in a string of the model, so no line of the model holds them.)
TAB == "\t"
VT == ""
FF == "\f"
SP == " "
NBSP == " "
OGHAM == " "
ZWNBSP == "﻿"
WhiteSpace == {TAB, VT, FF, SP, NBSP, OGHAM, ZWNBSP, LF, CR}

\* line.trim() is the empty string: the line holds white space only.
IsBlank(line) ==
  \A i \in 1..Len(line) : SubSeq(line, i, i) \in WhiteSpace

\* url.replace((/\/\/.*@/u), '//'): the leftmost "//" that an "@" follows
\* on the same line, then greedily to the last "@" of that line.
ReplaceCredentials(s) ==
  LET slashes == {o \in Occurrences(s, "//", 1) : Reachable(s, "@", o + 2) # {}}
  IN  IF slashes = {} THEN s
      ELSE LET at == Max(Reachable(s, "@", Min(slashes) + 2))
           IN  SubSeq(s, 1, Min(slashes) - 1) \o "//" \o From(s, at + 1)

\* url.replace((/(\.git$)/u), '')
ReplaceTrailingGit(s) ==
  IF MatchesAt(s, ".git", Len(s) - 3) THEN SubSeq(s, 1, Len(s) - 4) ELSE s

\* exec is what the promisified childProcess.exec settles to: rejected
\* (ok = FALSE) or resolved with stdout.  A rejection is caught (line 197).
findUrlFromGitConfig(exec) ==
  IF ~exec.ok THEN Null
  ELSE LET lines == Split(exec.stdout)
           found == {i \in 1..Len(lines) : ~IsBlank(lines[i])}
       IN  IF found = {} THEN Null
           ELSE Str(ReplaceTrailingGit(ReplaceCredentials(lines[Min(found)])))

(***************************************************************************)
(* detectGitHubUrls (lines 208-263).                                       *)
(***************************************************************************)
\* A lazy ".*?" that starts at from gets to the next (\/|\?|#|$): no line
\* terminator comes before it.
ReachesDelimiter(s, from) == DelimiterIndex(s, from) <= DotEnd(s, from)

\* url.match((/github\.com\/(.*?)(\/|\?|#|$)/u)): the leftmost
\* "github.com/" whose line holds a delimiter or ends the string.  [found, g1]
MatchUserName(s) ==
  LET ats == {a \in Occurrences(s, "github.com/", 1) : ReachesDelimiter(s, a + 11)}
  IN  IF ats = {} THEN [found |-> FALSE, g1 |-> ""]
      ELSE [found |-> TRUE,
            g1 |-> SubSeq(s, Min(ats) + 11, DelimiterIndex(s, Min(ats) + 11) - 1)]

\* url.match((/github\.com\/(.*?)\/(.*?)(\/|\?|#|$)/u)): the first group runs
\* lazily to the next "/", whatever else it passes on its line, the second
\* from there to the next delimiter.  [found, g1, g2]
MatchRepositoryName(s) ==
  LET ats == {a \in Occurrences(s, "github.com/", 1) :
                /\ Reachable(s, "/", a + 11) # {}
                /\ ReachesDelimiter(s, Min(Reachable(s, "/", a + 11)) + 1)}
  IN  IF ats = {} THEN [found |-> FALSE, g1 |-> "", g2 |-> ""]
      ELSE LET at == Min(ats)
               slash == Min(Reachable(s, "/", at + 11))
           IN  [found |-> TRUE,
                g1 |-> SubSeq(s, at + 11, slash - 1),
                g2 |-> SubSeq(s, slash + 1, DelimiterIndex(s, slash + 1) - 1)]

\* The ".github.io" a match that starts at the "://" at scheme can end its
\* first group before: at least one character after the "://", all on one
\* line, and a "/", "?", "#" or the end of the string after ".github.io".
Hosts(s, scheme) ==
  {p \in Reachable(s, ".github.io", scheme + 3) :
     /\ p >= scheme + 4
     /\ p + 10 = Len(s) + 1 \/ IsDelimiter(SubSeq(s, p + 10, p + 10))}

\* url.match((/:\/\/(.+?)\.github\.io(\/.*?)?(\/|\?|#|$)/u)): the leftmost
\* "://" with such a ".github.io", and the first of them.  The second group
\* takes part when a "/" follows and the lazy ".*?" gets to the next
\* delimiter; when it does not, the "/" is the third group's.
\* [found, g1, has2, g2]
MatchGitHubPages(s) ==
  LET schemes == {i \in Occurrences(s, "://", 1) : Hosts(s, i) # {}}
  IN  IF schemes = {} THEN [found |-> FALSE, g1 |-> "", has2 |-> FALSE, g2 |-> ""]
      ELSE LET scheme == Min(schemes)
               p == Min(Hosts(s, scheme))
               q == p + 10
               has2 == /\ q <= Len(s)
                       /\ SubSeq(s, q, q) = "/"
                       /\ ReachesDelimiter(s, q + 1)
           IN  [found |-> TRUE,
                g1 |-> SubSeq(s, scheme + 3, p - 1),
                has2 |-> has2,
                g2 |-> IF has2 THEN SubSeq(s, q, DelimiterIndex(s, q + 1) - 1)
                       ELSE ""]

\* The four let variables before the loop (lines 209-212).
ScanInit ==
  [userName |-> Null, repositoryName |-> Null, hasGitHubPages |-> FALSE,
   gitHubPagesUrl |-> Null]

\* The github.com branch of the loop body (lines 216-225).
ScanGitHubCom(d, s) ==
  LET matchUserName == MatchUserName(s)
      matchRepositoryName == MatchRepositoryName(s)
  IN  [d EXCEPT
         !.userName =
           IF ~Truthy(d.userName) /\ matchUserName.found /\ matchUserName.g1 # ""
           THEN Str(matchUserName.g1) ELSE @,
         !.repositoryName =
           IF /\ ~Truthy(d.repositoryName)
              /\ matchRepositoryName.found
              /\ matchRepositoryName.g2 # ""
           THEN Str(matchRepositoryName.g2) ELSE @]

\* ScanGitHubIo without line 239: the path is never appended.
ScanGitHubIo_PathNotAppended(d, s) ==
  LET m == MatchGitHubPages(s)
      repositorySite == m.has2 /\ Len(m.g2) > 1
      path == From(m.g2, 2)
  IN  IF ~m.found THEN [d EXCEPT !.hasGitHubPages = TRUE]
      ELSE [hasGitHubPages |-> TRUE,
            gitHubPagesUrl |-> Str("https://" \o m.g1 \o ".github.io"),
            userName |-> IF ~Truthy(d.userName) THEN Str(m.g1) ELSE d.userName,
            repositoryName |->
              IF Truthy(d.repositoryName) THEN d.repositoryName
              ELSE IF repositorySite
                   THEN (IF ~Includes(path, ".") THEN Str(path) ELSE d.repositoryName)
                   ELSE Str(m.g1 \o ".github.io")]

\* The github.io branch of the loop body (lines 226-252), entered with no
\* gitHubPagesUrl yet.  hasGitHubPages is set before the match is tried.
ScanGitHubIo(d, s) ==
  LET m == MatchGitHubPages(s)
      repositorySite == m.has2 /\ Len(m.g2) > 1
      path == From(m.g2, 2)
  IN  IF ~m.found THEN [d EXCEPT !.hasGitHubPages = TRUE]
      ELSE [hasGitHubPages |-> TRUE,
            gitHubPagesUrl |->
              Str("https://" \o m.g1 \o ".github.io"
                  \o (IF repositorySite THEN m.g2 ELSE "")),
            userName |-> IF ~Truthy(d.userName) THEN Str(m.g1) ELSE d.userName,
            repositoryName |->
              IF Truthy(d.repositoryName) THEN d.repositoryName
              ELSE IF repositorySite
                   THEN (IF ~Includes(path, ".") THEN Str(path) ELSE d.repositoryName)
                   ELSE Str(m.g1 \o ".github.io")]

\* One turn of the forEach (lines 214-253).
ScanUrl(d, url) ==
  IF ~Truthy(url) THEN d
  ELSE IF Includes(url.s, "github.com") THEN ScanGitHubCom(d, url.s)
  ELSE IF Includes(url.s, "github.io") /\ ~Truthy(d.gitHubPagesUrl)
       THEN ScanGitHubIo(d, url.s)
  ELSE d

\* Object.values(urls): the values in key order.
Values(u) == [i \in 1..Len(UrlKeys) |-> u[UrlKeys[i]]]

\* The loop over the first n values.
RECURSIVE Scan(_, _)
Scan(vals, n) == IF n = 0 THEN ScanInit ELSE ScanUrl(Scan(vals, n - 1), vals[n])

\* const gitHubUserUrl (line 255)
GitHubUserUrl(userName) ==
  IF Truthy(userName) THEN Str("https://github.com/" \o userName.s) ELSE Null

\* gitHubRepositoryUrl that tests repositoryName alone.
GitHubRepositoryUrl_RepositoryNameOnly(userName, repositoryName) ==
  IF Truthy(repositoryName)
  THEN Str("https://github.com/" \o (IF Truthy(userName) THEN userName.s ELSE "null")
           \o "/" \o repositoryName.s)
  ELSE Null

\* const gitHubRepositoryUrl (line 256)
GitHubRepositoryUrl(userName, repositoryName) ==
  IF Truthy(userName) /\ Truthy(repositoryName)
  THEN Str("https://github.com/" \o userName.s \o "/" \o repositoryName.s)
  ELSE Null

\* The guess made when the loop left no gitHubPagesUrl (lines 257-260).
GitHubPagesUrl(d) ==
  IF ~Truthy(d.gitHubPagesUrl) /\ Truthy(d.userName)
  THEN Str("https://" \o d.userName.s \o ".github.io"
           \o (IF Truthy(d.repositoryName) THEN "/" \o d.repositoryName.s ELSE ""))
  ELSE d.gitHubPagesUrl

detectGitHubUrls(u) ==
  LET d == Scan(Values(u), Len(UrlKeys))
  IN  [userName |-> d.userName,
       repositoryName |-> d.repositoryName,
       gitHubUserUrl |-> GitHubUserUrl(d.userName),
       gitHubRepositoryUrl |-> GitHubRepositoryUrl(d.userName, d.repositoryName),
       hasGitHubPages |-> d.hasGitHubPages,
       gitHubPagesUrl |-> GitHubPagesUrl(d)]

(***************************************************************************)
(* makeChoices (lines 272-318).                                            *)
(***************************************************************************)
\* String(n) of a template literal, for n >= 0.
RECURSIVE NumStr(_)
NumStr(n) ==
  IF n < 10 THEN SubSeq("0123456789", n + 1, n + 1)
  ELSE NumStr(n \div 10) \o NumStr(n % 10)

\* push that numbers from 0: choices.length in place of choices.length + 1.
Push_NumberedFromZero(cs, text, value) ==
  Append(cs, [name |-> "[" \o NumStr(Len(cs)) \o "]  " \o text,
              value |-> value])

\* choices.push({ name: `[${choices.length + 1}]  ${text}`, value })
Push(cs, text, value) ==
  Append(cs, [name |-> "[" \o NumStr(Len(cs) + 1) \o "]  " \o text,
              value |-> value])

\* The text after the number of a manifest or remote URL (lines 297-306).
UrlText(key, s) ==
  IF key = "gitRemoteUrl" THEN s \o " ... Git Remote URL"
  ELSE s \o " ... package.json " \o key

\* Object.keys(urls).forEach (lines 294-307), over the first n keys.
RECURSIVE PushUrls(_, _, _)
PushUrls(cs, u, n) ==
  IF n = 0 THEN cs
  ELSE LET before == PushUrls(cs, u, n - 1)
           key == UrlKeys[n]
       IN  IF ~Truthy(u[key]) THEN before
           ELSE Push(before, UrlText(key, u[key].s), u[key])

\* The Cancel entry (lines 310-315).
PushCancel(cs) == IF Len(cs) > 0 THEN Push(cs, "Cancel", Bool(FALSE)) ELSE cs

makeChoices(u, g) ==
  LET c1 == IF Truthy(g.gitHubRepositoryUrl)
            THEN Push(<<>>, g.gitHubRepositoryUrl.s \o " ... GitHub Repository Page ("
                            \o g.userName.s \o "/" \o g.repositoryName.s \o ")",
                      g.gitHubRepositoryUrl)
            ELSE <<>>
      c2 == IF Truthy(g.gitHubUserUrl)
            THEN Push(c1, g.gitHubUserUrl.s \o " ... GitHub User Page ("
                          \o g.userName.s \o ")",
                      g.gitHubUserUrl)
            ELSE c1
      c3 == IF Truthy(g.gitHubPagesUrl)
            THEN Push(c2, g.gitHubPagesUrl.s \o " ... GitHub Pages"
                          \o (IF g.hasGitHubPages THEN "" ELSE " (Maybe Not Found)"),
                      g.gitHubPagesUrl)
            ELSE c2
  IN  PushCancel(PushUrls(c3, u, Len(UrlKeys)))

\* showLinks (lines 325-330): one line per choice that is not Cancel.
RECURSIVE showLinks(_, _)
showLinks(cs, n) ==
  IF n = 0 THEN <<>>
  ELSE showLinks(cs, n - 1)
       \o (IF Truthy(cs[n].value) THEN <<[level |-> "log", text |-> cs[n].name]>>
           ELSE <<>>)

(***************************************************************************)
(* readPackageJson (lines 118-146): what it returns and what it warns.     *)
(***************************************************************************)
\* {} : a mapping with none of the known fields.
EmptyManifest ==
  [t |-> "manifest", homepage |-> Undefined, author |-> Undefined,
   repository |-> Undefined, bugs |-> Undefined, funding |-> Undefined]

readPackageJson(d) ==
  CASE d.status = "missing" ->
         [value |-> EmptyManifest,
          console |-> <<[level |-> "warn", text |-> "\npackage.json not found"]>>]
    [] d.status = "unreadable" ->
         [value |-> EmptyManifest,
          console |-> <<[level |-> "warn", text |-> "\nCannot read package.json"]>>]
    [] d.status = "unparsable" ->
         [value |-> EmptyManifest,
          console |-> <<[level |-> "warn", text |-> "\nFailed to parse package.json"]>>]
    [] OTHER -> [value |-> d.content, console |-> <<>>]

(***************************************************************************)
(* The inputs of the model.                                                *)
(***************************************************************************)
\* Strings a manifest field holds, as a plain string or under url.
FieldStrings ==
  { "",
    "#readme",
    "https://jane.dev",
    "https://github.com/acme",
    "https://github.com/acme/widget",
    "https://github.com/acme/widget#readme",
    "https://github.com/acme/widget.git#readme",
    "git+https://github.com/acme/widget.git",
    "git@github.com:acme/widget.git",
    "https://github.com/",
    "https://github.com//widget",
    "https://github.com/acme?tab=a/b",
    "https://acme.github.io/widget/",
    "https://neos21.github.io/widget/",
    "https://acme.github.io/",
    "https://acme.github.io/index.html",
    "acme.github.io/widget",
    "Jane Doe (https://jane.dev)",
    "Jane Doe (https://jane.dev#about)",
    "Jane (https://jane.dev) (she)" }

\* Values that are neither a string nor an object with a string url.
OtherValues ==
  { Null, Num(0), Num(5), Bool(TRUE), Arr, Obj(Undefined), Obj(Null),
    Obj(Num(5)), Obj(Obj(Undefined)) }

FieldValues ==
  OtherValues \cup {Str(s) : s \in FieldStrings} \cup {Obj(Str(s)) : s \in FieldStrings}

\* What the fields beside the first one hold.
CompanionValues == {Str("https://github.com/bob/gadget"), Str("https://jane.dev")}

Fields == {PropertyNames[i] : i \in 1..Len(PropertyNames)}

\* The manifests with at most n of the known fields, the first from
\* FieldValues and the others from CompanionValues.
RECURSIVE Manifests(_)
Manifests(n) ==
  IF n = 0 THEN {EmptyManifest}
  ELSE Manifests(n - 1) \cup
       { [m EXCEPT ![k] = v] :
           m \in {x \in Manifests(n - 1) : Cardinality({f \in Fields : x[f] # Undefined}) = n - 1},
           k \in Fields,
           v \in (IF n = 1 THEN FieldValues ELSE CompanionValues) }

\* package.json on disk: absent, unreadable, no JSON, or JSON of a value.
Disks ==
  { [status |-> st, content |-> Undefined] : st \in {"missing", "unreadable", "unparsable"} }
  \cup { [status |-> "ok", content |-> c] : c \in Manifests(MaxPresent) \cup {Null} }

\* What `git config remote.origin.url` settles to: a rejection, no URL, a
\* URL with credentials, the same with CRLF line ends, and a URL after a
\* line of white space whose credentials hold a carriage return.
GitExecs ==
  { [ok |-> FALSE, stdout |-> ""],
    [ok |-> TRUE, stdout |-> "\n"],
    [ok |-> TRUE, stdout |-> "https://neo@github.com/Neos21/opu.git\n"],
    [ok |-> TRUE, stdout |-> "https://neo@github.com/Neos21/opu.git\r\n"],
    [ok |-> TRUE, stdout |-> "\f\nhttps://a\r@github.com/Neos21/opu.git\n"] }

(***************************************************************************)
(* The async function (lines 332-367), one action per statement.           *)
(***************************************************************************)
Init ==
  /\ disk \in Disks
  /\ pc = "readPackageJson"
  /\ packageJson = Undefined
  /\ urls = Undefined
  /\ gitHubUrls = Undefined
  /\ choices = <<>>
  /\ answer = Undefined
  /\ opened = <<>>
  /\ console = <<>>
  /\ steps = <<>>
  /\ outcome = "running"

\* catch(_error) {} (lines 364-366): the rejection ends the function.
Caught ==
  /\ pc' = "done"
  /\ outcome' = "caught"

\* line 335
ReadPackageJson ==
  /\ pc = "readPackageJson"
  /\ steps' = Append(steps, "readPackageJson")
  /\ packageJson' = readPackageJson(disk).value
  /\ console' = console \o readPackageJson(disk).console
  /\ pc' = "findUrlsFromPackageJson"
  /\ UNCHANGED <<disk, urls, gitHubUrls, choices, answer, opened, outcome>>

\* line 336
FindUrlsFromPackageJson ==
  /\ pc = "findUrlsFromPackageJson"
  /\ steps' = Append(steps, "findUrlsFromPackageJson")
  /\ LET result == findUrlsFromPackageJson(packageJson)
     IN  IF result = TypeError
         THEN Caught /\ UNCHANGED urls
         ELSE /\ urls' = result
              /\ pc' = "findUrlFromGitConfig"
              /\ UNCHANGED outcome
  /\ UNCHANGED <<disk, packageJson, gitHubUrls, choices, answer, opened, console>>

\* lines 339-340
FindUrlFromGitConfig ==
  /\ pc = "findUrlFromGitConfig"
  /\ steps' = Append(steps, "findUrlFromGitConfig")
  /\ \E exec \in GitExecs :
       LET gitRemoteUrl == findUrlFromGitConfig(exec)
       IN  urls' = IF Truthy(gitRemoteUrl)
                   THEN [urls EXCEPT !.gitRemoteUrl = gitRemoteUrl]
                   ELSE urls
  /\ pc' = "detectGitHubUrls"
  /\ UNCHANGED <<disk, packageJson, gitHubUrls, choices, answer, opened, console, outcome>>

\* line 343
DetectGitHubUrls ==
  /\ pc = "detectGitHubUrls"
  /\ steps' = Append(steps, "detectGitHubUrls")
  /\ gitHubUrls' = detectGitHubUrls(urls)
  /\ pc' = "makeChoices"
  /\ UNCHANGED <<disk, packageJson, urls, choices, answer, opened, console, outcome>>

\* lines 346-347
MakeChoices ==
  /\ pc = "makeChoices"
  /\ steps' = Append(steps, "makeChoices")
  /\ choices' = makeChoices(urls, gitHubUrls)
  /\ IF Len(choices') = 0
     THEN /\ console' = Append(console, [level |-> "error", text |-> "\nNo URLs detected"])
          /\ pc' = "done"
          /\ outcome' = "returned"
     ELSE /\ pc' = "prompt"
          /\ UNCHANGED <<console, outcome>>
  /\ UNCHANGED <<disk, packageJson, urls, gitHubUrls, answer, opened>>

\* lines 350-357: the list prompt resolves to the value of one of its
\* choices, or rejects (no terminal, the prompt closed).
Prompt ==
  /\ pc = "prompt"
  /\ steps' = Append(steps, "prompt")
  /\ console' = Append(console, [level |-> "log", text |-> ""])
  /\ \/ \E i \in 1..Len(choices) :
          /\ answer' = choices[i].value
          /\ pc' = "open"
          /\ UNCHANGED outcome
     \/ Caught /\ UNCHANGED answer
  /\ UNCHANGED <<disk, packageJson, urls, gitHubUrls, choices, opened>>

\* Open without the test of line 362: open() is called on Cancel too.
Open_WithoutAnswerTest ==
  /\ pc = "open"
  /\ console' = console \o showLinks(choices, Len(choices))
  /\ steps' = Append(steps, "open")
  /\ opened' = Append(opened, answer)
  /\ pc' = "done"
  /\ outcome' \in {"returned", "caught"}
  /\ UNCHANGED <<disk, packageJson, urls, gitHubUrls, choices, answer>>

\* lines 360-362: the links are shown, then open() is called with the
\* answer when it is not Cancel, and awaited; the promise may reject, and
\* the rejection is caught (line 364).
Open ==
  /\ pc = "open"
  /\ console' = console \o showLinks(choices, Len(choices))
  /\ IF Truthy(answer)
     THEN /\ steps' = Append(steps, "open")
          /\ opened' = Append(opened, answer)
          /\ \/ /\ pc' = "done"
                /\ outcome' = "returned"
             \/ Caught
     ELSE /\ pc' = "done"
          /\ outcome' = "returned"
          /\ UNCHANGED <<steps, opened>>
  /\ UNCHANGED <<disk, packageJson, urls, gitHubUrls, choices, answer>>

Next ==
  \/ ReadPackageJson
  \/ FindUrlsFromPackageJson
  \/ FindUrlFromGitConfig
  \/ DetectGitHubUrls
  \/ MakeChoices
  \/ Prompt
  \/ Open

Spec == Init /\ [][Next]_vars

(***************************************************************************)
(* Properties.                                                             *)
(***************************************************************************)
\* The step has been taken.
Taken(step) == \E i \in 1..Len(steps) : steps[i] = step

\* The value is a plain string, or an object whose url is a string.
WellFormed(v) == v.t = "string" \/ (v.t = "object" /\ v.url.t = "string")

\* The string a well-formed value holds.
RawString(v) == IF v.t = "string" THEN v.s ELSE v.url.s

\* s without '#' and everything after it.
WithoutFragment(s) ==
  IF Includes(s, "#") THEN SubSeq(s, 1, IndexOf(s, "#", 1) - 1) ELSE s

\* s without a '.git' that ends it.
WithoutGitSuffix(s) ==
  IF Len(s) >= 4 /\ From(s, Len(s) - 3) = ".git" THEN SubSeq(s, 1, Len(s) - 4) ELSE s

\* C1: for every manifest mapping, whatever value sits under the five known
\* fields, findUrlsFromPackageJson returns without throwing; a field whose
\* shape is absent or malformed yields null, and the other four fields are
\* extracted exactly as they are when the malformed field is absent.
C1_MalformedFieldYieldsNull ==
  (Taken("findUrlsFromPackageJson") /\ packageJson.t = "manifest") =>
    /\ urls.t = "urls"
    /\ \A k \in Fields :
         ~WellFormed(packageJson[k]) =>
           /\ urls[k] = Null
           /\ \A j \in Fields \ {k} :
                urls[j] = findUrlsFromPackageJson([packageJson EXCEPT ![k] = Undefined])[j]

\* The URL was built from a github.io URL of the input: its host and path
\* are part of one.
ObservedPages(u, pagesUrl) ==
  \E i \in 1..Len(UrlKeys) :
    /\ Truthy(u[UrlKeys[i]])
    /\ Includes(u[UrlKeys[i]].s, "github.io")
    /\ MatchesAt(pagesUrl.s, "https://", 1)
    /\ Includes(u[UrlKeys[i]].s, From(pagesUrl.s, 9))

\* C2: for every ExtractedUrls, hasGitHubPages is true only if gitHubPagesUrl
\* was built from a github.io URL present in the input: it is never true
\* with gitHubPagesUrl null, nor with the synthesized
\* https://{userName}.github.io[/{repositoryName}].
C2_HasGitHubPagesOnlyIfObserved ==
  (Taken("detectGitHubUrls") /\ gitHubUrls.hasGitHubPages) =>
    /\ gitHubUrls.gitHubPagesUrl # Null
    /\ ObservedPages(urls, gitHubUrls.gitHubPagesUrl)
    /\ Truthy(Scan(Values(urls), Len(UrlKeys)).gitHubPagesUrl)

\* C3: for each of the five fields and every non-empty string value (plain
\* or under url), getFromUrlProperty yields the value without its fragment
\* and then without a trailing '.git': the result holds no '#'.
C3_FragmentAndGitSuffixStripped ==
  (Taken("readPackageJson") /\ packageJson.t = "manifest") =>
    \A k \in Fields :
      (WellFormed(packageJson[k]) /\ RawString(packageJson[k]) # "") =>
        /\ getFromUrlProperty(packageJson, k)
             = Str(WithoutGitSuffix(WithoutFragment(RawString(packageJson[k]))))
        /\ ~Includes(getFromUrlProperty(packageJson, k).s, "#")

\* The characters of a GitHub user or repository name, dots left out.
NameChars ==
  LET alphabet == "abcdefghijklmnopqrstuvwxyzABCDEFGHIJKLMNOPQRSTUVWXYZ0123456789-_"
  IN  {SubSeq(alphabet, i, i) : i \in 1..Len(alphabet)}

IsName(s) == s # "" /\ \A i \in 1..Len(s) : SubSeq(s, i, i) \in NameChars

\* The {u} and {r} of https://{u}.github.io/{r}/
PagesUser(s) == SubSeq(s, 9, IndexOf(s, ".github.io/", 1) - 1)
PagesRepository(s) == SubSeq(s, IndexOf(s, ".github.io/", 1) + 11, Len(s) - 1)

\* s is https://{u}.github.io/{r}/ for two names.
IsRepositorySitePages(s) ==
  /\ MatchesAt(s, "https://", 1)
  /\ IndexOf(s, ".github.io/", 1) # 0
  /\ MatchesAt(s, "/", Len(s))
  /\ IsName(PagesUser(s))
  /\ IsName(PagesRepository(s))

\* The value under the i-th key is the only extracted URL.
OnlyUrl(u, i) ==
  /\ Truthy(u[UrlKeys[i]])
  /\ \A j \in (1..Len(UrlKeys)) \ {i} : u[UrlKeys[j]] \in {Null, Undefined}

\* What C4 says of every field but gitHubPagesUrl.
C4Inferred(s) ==
  /\ gitHubUrls.userName = Str(PagesUser(s))
  /\ gitHubUrls.repositoryName = Str(PagesRepository(s))
  /\ gitHubUrls.hasGitHubPages = TRUE
  /\ gitHubUrls.gitHubRepositoryUrl
       = Str("https://github.com/" \o PagesUser(s) \o "/" \o PagesRepository(s))

\* C4, as claimed: when the only extracted URL is https://{u}.github.io/{r}/,
\* the inference is userName u, repositoryName r, hasGitHubPages true,
\* gitHubRepositoryUrl https://github.com/{u}/{r} and gitHubPagesUrl the
\* observed URL, trailing slash included.
C4_PagesUrlIsObservedUrl ==
  Taken("detectGitHubUrls") =>
    \A i \in 1..Len(UrlKeys) :
      (OnlyUrl(urls, i) /\ IsRepositorySitePages(urls[UrlKeys[i]].s)) =>
        /\ C4Inferred(urls[UrlKeys[i]].s)
        /\ gitHubUrls.gitHubPagesUrl = urls[UrlKeys[i]]

\* C4, amended: the same, with gitHubPagesUrl https://{u}.github.io/{r}, the
\* observed URL without its trailing slash.
C4_PagesUrlWithoutTrailingSlash ==
  Taken("detectGitHubUrls") =>
    \A i \in 1..Len(UrlKeys) :
      (OnlyUrl(urls, i) /\ IsRepositorySitePages(urls[UrlKeys[i]].s)) =>
        /\ C4Inferred(urls[UrlKeys[i]].s)
        /\ gitHubUrls.gitHubPagesUrl
             = Str("https://" \o PagesUser(urls[UrlKeys[i]].s) \o ".github.io/"
                   \o PagesRepository(urls[UrlKeys[i]].s))

\* C4's case: the inference ran on a single repository-site Pages URL.
C4_Witness ==
  /\ Taken("detectGitHubUrls")
  /\ \E i \in 1..Len(UrlKeys) :
       OnlyUrl(urls, i) /\ IsRepositorySitePages(urls[UrlKeys[i]].s)

\* s holds a parenthesized substring that begins with http.
HasParenthesizedHttp(s) ==
  /\ IndexOf(s, "(http", 1) # 0
  /\ IndexOf(s, ")", IndexOf(s, "(http", 1) + 5) # 0

\* What that parenthesis holds.
ParenthesisContent(s) ==
  SubSeq(s, IndexOf(s, "(http", 1) + 1,
         IndexOf(s, ")", IndexOf(s, "(http", 1) + 5) - 1)

\* C5: for an author given as a plain string that holds a parenthesized
\* substring beginning with http, the extracted URL is exactly the content
\* of that parenthesis, fragment or further parentheses notwithstanding;
\* otherwise it is the stripped string (what getFromUrlProperty yields) if
\* non-empty, else null.
C5_AuthorParenthesisContent ==
  (/\ Taken("findUrlsFromPackageJson")
   /\ urls.t = "urls"
   /\ packageJson.t = "manifest"
   /\ packageJson.author.t = "string") =>
    LET raw == packageJson.author.s
        stripped == getFromUrlProperty(packageJson, "author")
    IN  urls.author = IF HasParenthesizedHttp(raw) THEN Str(ParenthesisContent(raw))
                      ELSE IF stripped # Null /\ stripped.s # "" THEN stripped
                      ELSE Null

\* The path segment right after the first 'github.com/', ending at the next
\* '/', '?', '#' or the end; "" when there is none.
FirstSegment(s) ==
  LET at == IndexOf(s, "github.com/", 1)
  IN  IF at = 0 THEN "" ELSE SubSeq(s, at + 11, DelimiterIndex(s, at + 11) - 1)

\* The second path segment, delimited the same way: it begins after the
\* '/' that ends the first; "" when there is none.
SecondSegment(s) ==
  LET at == IndexOf(s, "github.com/", 1)
      end == DelimiterIndex(s, at + 11)
  IN  IF at = 0 \/ end > Len(s) \/ SubSeq(s, end, end) # "/" THEN ""
      ELSE SubSeq(s, end + 1, DelimiterIndex(s, end + 1) - 1)

\* C6: scanning the extracted URLs in field order, a URL containing
\* github.com sets userName, if unset, to the path segment after
\* 'github.com/' and repositoryName, if unset, to the second path segment;
\* an empty segment sets nothing and a set field is never overwritten.
C6_SegmentsFirstMatchWins ==
  Taken("detectGitHubUrls") =>
    \A n \in 1..Len(UrlKeys) :
      LET url == Values(urls)[n]
          before == Scan(Values(urls), n - 1)
          after == Scan(Values(urls), n)
      IN  /\ (before.userName # Null => after.userName = before.userName)
          /\ (before.repositoryName # Null => after.repositoryName = before.repositoryName)
          /\ (Truthy(url) /\ Includes(url.s, "github.com")) =>
               /\ before.userName = Null =>
                    after.userName = IF FirstSegment(url.s) # ""
                                     THEN Str(FirstSegment(url.s)) ELSE Null
               /\ before.repositoryName = Null =>
                    after.repositoryName = IF SecondSegment(url.s) # ""
                                           THEN Str(SecondSegment(url.s)) ELSE Null
               /\ n = Len(UrlKeys) =>
                    /\ gitHubUrls.userName = after.userName
                    /\ gitHubUrls.repositoryName = after.repositoryName

\* C7: gitHubUserUrl is https://github.com/{userName} if userName is set and
\* null otherwise; gitHubRepositoryUrl is
\* https://github.com/{userName}/{repositoryName} if both are set and null
\* otherwise; so the repository URL is non-null only with the user URL, and
\* with userName set and repositoryName unset it is null beside a user URL.
C7_DerivedUrls ==
  Taken("detectGitHubUrls") =>
    LET userName == gitHubUrls.userName
        repositoryName == gitHubUrls.repositoryName
    IN  /\ userName # Null => userName.t = "string" /\ userName.s # ""
        /\ repositoryName # Null => repositoryName.t = "string" /\ repositoryName.s # ""
        /\ gitHubUrls.gitHubUserUrl
             = IF userName # Null THEN Str("https://github.com/" \o userName.s)
               ELSE Null
        /\ gitHubUrls.gitHubRepositoryUrl
             = IF userName # Null /\ repositoryName # Null
               THEN Str("https://github.com/" \o userName.s \o "/" \o repositoryName.s)
               ELSE Null
        /\ gitHubUrls.gitHubRepositoryUrl # Null => gitHubUrls.gitHubUserUrl # Null
        /\ (userName # Null /\ repositoryName = Null) =>
             gitHubUrls.gitHubRepositoryUrl = Null /\ gitHubUrls.gitHubUserUrl # Null

\* C7's case: a userName without a repositoryName.
C7_Witness ==
  /\ Taken("detectGitHubUrls")
  /\ gitHubUrls.userName # Null
  /\ gitHubUrls.repositoryName = Null
  /\ gitHubUrls.gitHubUserUrl # Null

\* The value is an extracted or inferred URL: not null, not missing.
NonNull(c) == c.value \notin {Null, Undefined}

\* The same, the empty string left out.
NonEmpty(c) == NonNull(c) /\ c.value.s # ""

\* What may become an entry, in the order of C8, each with the text its
\* label is said to hold.
Candidates(u, g) ==
  << [value |-> g.gitHubRepositoryUrl, mark |-> ""],
     [value |-> g.gitHubUserUrl, mark |-> ""],
     [value |-> g.gitHubPagesUrl,
      mark |-> IF g.hasGitHubPages THEN "" ELSE "(Maybe Not Found)"] >>
  \o [i \in 1..Len(UrlKeys) |->
        [value |-> u[UrlKeys[i]],
         mark |-> IF UrlKeys[i] = "gitRemoteUrl" THEN "Git Remote URL"
                  ELSE "package.json " \o UrlKeys[i]]]

\* The entries kept, and Cancel after them when there is one.
WithCancel(entries) ==
  IF entries = <<>> THEN <<>>
  ELSE Append(entries, [value |-> Bool(FALSE), mark |-> "Cancel"])

\* The list holds exactly the expected entries: value by value, the k-th
\* label beginning with [k] and holding its mark, and (Maybe Not Found)
\* only in the label of unconfirmed Pages.
SameChoices(cs, expected, g) ==
  /\ Len(cs) = Len(expected)
  /\ \A k \in 1..Len(cs) :
       /\ cs[k].value = expected[k].value
       /\ MatchesAt(cs[k].name, "[" \o NumStr(k) \o "]", 1)
       /\ Includes(cs[k].name, expected[k].mark)
       /\ Includes(cs[k].name, "(Maybe Not Found)")
            <=> (cs[k].value = g.gitHubPagesUrl /\ ~g.hasGitHubPages
                 /\ expected[k].mark = "(Maybe Not Found)")

\* The manifest has none of the known fields and no remote URL was found.
NothingSupplied ==
  /\ packageJson.t = "manifest"
  /\ \A k \in Fields : packageJson[k] = Undefined
  /\ urls.gitRemoteUrl = Undefined

\* C8, as claimed: makeChoices returns the inferred repository, user and
\* Pages URLs that are non-null, then each non-null extracted URL in field
\* order, then Cancel (value false) iff an entry precedes it; the k-th label
\* begins with [k]; the list is empty when nothing was supplied.  Read of the
\* list as makeChoices returns it, which no later step changes.
C8_EveryNonNullUrlIsAChoice ==
  (Taken("makeChoices") /\ ~Taken("prompt")) =>
    /\ SameChoices(choices, WithCancel(SelectSeq(Candidates(urls, gitHubUrls), NonNull)),
                   gitHubUrls)
    /\ NothingSupplied => choices = <<>>

\* C8, amended: the same, of each URL that is neither null nor the empty
\* string.
C8_EveryNonEmptyUrlIsAChoice ==
  (Taken("makeChoices") /\ ~Taken("prompt")) =>
    /\ SameChoices(choices, WithCancel(SelectSeq(Candidates(urls, gitHubUrls), NonEmpty)),
                   gitHubUrls)
    /\ NothingSupplied => choices = <<>>

\* C8's case: a list built from an inference and the remote URL, beside an
\* extracted URL that is the empty string.
C8_Witness ==
  /\ Taken("makeChoices")
  /\ Len(choices) >= 5
  /\ Truthy(urls.gitRemoteUrl)
  /\ \E k \in Fields : urls[k] = Str("")

\* The field alone yields a URL.
Usable(v) ==
  /\ WellFormed(v)
  /\ Truthy(getFromUrlProperty([EmptyManifest EXCEPT !.homepage = v], "homepage"))

\* C9: a failing collaborator does not abort the run: a missing, unreadable
\* or unparsable manifest becomes the empty mapping and the remote lookup
\* follows; a failing lookup becomes null; so when a source yields a usable
\* URL the prompt is reached with a non-empty list, and 'No URLs detected'
\* is reported only of an empty list.
C9_RunReachesPrompt ==
  /\ (Taken("readPackageJson") /\ disk.status # "ok") => packageJson = EmptyManifest
  /\ (pc = "done" /\ disk.status # "ok") => Taken("findUrlFromGitConfig")
  /\ (/\ pc = "done"
      /\ \/ packageJson.t = "manifest" /\ \E k \in Fields : Usable(packageJson[k])
         \/ urls.t = "urls" /\ Truthy(urls.gitRemoteUrl)) =>
       Taken("prompt") /\ choices # <<>>
  /\ (\E i \in 1..Len(console) : console[i].text = "\nNo URLs detected") =>
       Taken("makeChoices") /\ choices = <<>> /\ ~Taken("prompt")

\* The steps of a run, in order.
PipelineOrder ==
  << "readPackageJson", "findUrlsFromPackageJson", "findUrlFromGitConfig",
     "detectGitHubUrls", "makeChoices", "prompt", "open" >>

\* The order, the guard of the prompt and the guard of open(): each step at
\* most once and in order, no prompt on an empty list, open() called only
\* after the prompt, only on an answer that is not Cancel, only with the
\* value of a presented choice, and no state but running, returned, caught.
C10Guards ==
  /\ Len(steps) <= Len(PipelineOrder)
  /\ steps = SubSeq(PipelineOrder, 1, Len(steps))
  /\ Taken("prompt") => choices # <<>>
  /\ Len(opened) <= 1
  /\ opened # <<>> =>
       /\ Taken("prompt") /\ Taken("open")
       /\ answer = opened[1]
       /\ answer # Bool(FALSE)
       /\ \E i \in 1..Len(choices) :
            choices[i].value = opened[1] /\ choices[i].value # Bool(FALSE)
  /\ Taken("open") => answer \notin {Undefined, Bool(FALSE)}
  /\ outcome \in {"running", "returned", "caught"}
  /\ pc = "done" <=> outcome # "running"

\* C10: the steps occur in the order read, extract, remote, infer, choices,
\* prompt, open, each at most once; the prompt is never issued with an empty
\* list; the browser is opened only after the prompt returned, only on an
\* answer that is not Cancel, only with the value of a presented choice;
\* Cancel or a failure at any step ends the run with nothing handed to
\* open(), and nothing escapes.
C10_PipelineOrder ==
  /\ C10Guards
  /\ (outcome = "caught" \/ answer = Bool(FALSE)) => opened = <<>>

\* C10 amended: as C10, but the failure that ends the run with nothing
\* handed to open() is a failure of a step before open; when open() itself
\* fails, it has been called, once, with the chosen URL, and the failure is
\* caught like any other.
C10_PipelineOrderUntilOpen ==
  /\ C10Guards
  /\ answer = Bool(FALSE) => opened = <<>>
  /\ (outcome = "caught" /\ ~Taken("open")) => opened = <<>>
  /\ (outcome = "caught" /\ Taken("open")) => opened = <<answer>>

\* C10's case: a run that prompted and called open() with the chosen URL.
C10_Witness ==
  /\ pc = "done"
  /\ outcome = "returned"
  /\ opened # <<>>
  /\ Len(choices) > 2

\* The userName and repositoryName the inference draws from the URL alone.
PairOf(url) ==
  LET d == ScanUrl(ScanInit, url)
  IN  [userName |-> d.userName, repositoryName |-> d.repositoryName]

\* C11: whenever gitHubRepositoryUrl is non-null, its userName and
\* repositoryName come from one and the same input URL: the pair is never a
\* user name of one extracted URL beside a repository name of another.
C11_PairFromOneUrl ==
  (Taken("detectGitHubUrls") /\ gitHubUrls.gitHubRepositoryUrl # Null) =>
    \E i \in 1..Len(UrlKeys) :
      /\ Truthy(urls[UrlKeys[i]])
      /\ PairOf(urls[UrlKeys[i]])
           = [userName |-> gitHubUrls.userName,
              repositoryName |-> gitHubUrls.repositoryName]

====
